---------------------------- MODULE Spec2Model ----------------------------
(* A model of the triparific image pipelines (functions/main.py) and of   *)
(* their two HTTP entry points.  Strings are sequences of one-character   *)
(* strings, so that lower(), strip() and split(",") are computed and not  *)
(* assumed.  Every invocation p has its own locals; the storage bucket    *)
(* is the environment: each exists()/upload call draws its answer.        *)
EXTENDS Integers, Sequences, FiniteSets, TLC

(* ----------------------------------------------------------------------- *)
(* Program constants                                                        *)
(* ----------------------------------------------------------------------- *)
CANVAS_WIDTH == 2000
CANVAS_HEIGHT == 2000
OVERLAP_RETRIES == 15
\* MIN_SCALE = 0.6 and MAX_SCALE = 1.2, in tenths
MIN_SCALE_TENTHS == 6
MAX_SCALE_TENTHS == 12
\* defaults of the flag grid parameters (flag_grid_http / build_flag_grid)
DEFAULT_COLS == 8
DEFAULT_GAP == 12
DEFAULT_TILE_HEIGHT == 250

(* ----------------------------------------------------------------------- *)
(* Bounds of the model                                                      *)
(* ----------------------------------------------------------------------- *)
\* longest list of codes an invocation is given
MaxCodes == 2

(* ----------------------------------------------------------------------- *)
(* Strings                                                                  *)
(* ----------------------------------------------------------------------- *)
UpperLetters == <<"A","B","C","D","E","F","G","H","I","J","K","L","M",
                  "N","O","P","Q","R","S","T","U","V","W","X","Y","Z">>
LowerLetters == <<"a","b","c","d","e","f","g","h","i","j","k","l","m",
                  "n","o","p","q","r","s","t","u","v","w","x","y","z">>

\* str.lower() on one character
LowerChar(c) ==
    IF \E i \in 1..26 : UpperLetters[i] = c
    THEN LowerLetters[CHOOSE i \in 1..26 : UpperLetters[i] = c]
    ELSE c

\* str.lower()
Lower(s) == [i \in 1..Len(s) |-> LowerChar(s[i])]

IsSpace(c) == c \in {" ", "\t", "\n"}

RECURSIVE LStrip(_)
LStrip(s) ==
    IF s = <<>> THEN <<>>
    ELSE IF IsSpace(Head(s)) THEN LStrip(Tail(s)) ELSE s

RECURSIVE RStrip(_)
RStrip(s) ==
    IF s = <<>> THEN <<>>
    ELSE IF IsSpace(s[Len(s)]) THEN RStrip(SubSeq(s, 1, Len(s) - 1)) ELSE s

\* str.strip()
Strip(s) == RStrip(LStrip(s))

\* truth value of a str or of a list
Truthy(s) == Len(s) > 0

\* str.split(","): the pieces between the commas, empty pieces kept
RECURSIVE SplitFrom(_, _)
SplitFrom(s, cur) ==
    IF s = <<>> THEN <<cur>>
    ELSE IF Head(s) = "," THEN <<cur>> \o SplitFrom(Tail(s), <<>>)
    ELSE SplitFrom(Tail(s), Append(cur, Head(s)))

SplitComma(s) == SplitFrom(s, <<>>)

Max(a, b) == IF a >= b THEN a ELSE b
Min(a, b) == IF a <= b THEN a ELSE b

(* ----------------------------------------------------------------------- *)
(* Code normalisation                                                       *)
(* ----------------------------------------------------------------------- *)
\* compose_passport_stamps: codes = [c.lower() for c in codes if c]
NormalizeStampCodes(cs) ==
    LET kept == SelectSeq(cs, Truthy)
    IN  [i \in 1..Len(kept) |-> Lower(kept[i])]

StripTruthy(c) == Truthy(Strip(c))

\* a slip: the entries are tested stripped but not stored stripped
NormalizeFlagCodes_NoStrip(cs) ==
    LET kept == SelectSeq(cs, StripTruthy)
    IN  [i \in 1..Len(kept) |-> Lower(kept[i])]

\* build_flag_grid: codes = [c.strip().lower() for c in codes if c.strip()]
NormalizeFlagCodes(cs) ==
    LET kept == SelectSeq(cs, StripTruthy)
    IN  [i \in 1..Len(kept) |-> Lower(Strip(kept[i]))]

\* the handlers: codes = [c.strip() for c in param.split(",") if c.strip()]
ParseCodesParam(param) ==
    LET kept == SelectSeq(SplitComma(param), StripTruthy)
    IN  [i \in 1..Len(kept) |-> Strip(kept[i])]

(* ----------------------------------------------------------------------- *)
(* Stamp placement geometry                                                 *)
(* ----------------------------------------------------------------------- *)
\* a slip: one of the four comparisons is strict
_boxes_overlap_Strict(a, b) ==
    ~ (   a[1] + a[3] < b[1]
       \/ b[1] + b[3] <= a[1]
       \/ a[2] + a[4] <= b[2]
       \/ b[2] + b[4] <= a[2])

\* boxes are <<x, y, w, h>>
_boxes_overlap(a, b) ==
    ~ (   a[1] + a[3] <= b[1]
       \/ b[1] + b[3] <= a[1]
       \/ a[2] + a[4] <= b[2]
       \/ b[2] + b[4] <= a[2])

(* ----------------------------------------------------------------------- *)
(* Flag grid geometry                                                       *)
(* ----------------------------------------------------------------------- *)
\* a slip: the column count is not capped by the number of tiles
EffectiveCols_Uncapped(cols, n) == Max(1, cols)

\* cols = max(1, min(cols, len(tiles)))
EffectiveCols(cols, n) == Max(1, Min(cols, n))

\* rows = math.ceil(len(tiles) / cols), for cols >= 1
GridRows(n, cols) == (n + cols - 1) \div cols

\* gap = max(0, gap)
EffectiveGap(gap) == Max(0, gap)

\* a slip: one gap per tile instead of one gap between tiles
CanvasExtent_GapPerTile(count, tile, gap) == count * tile + count * gap

\* canvas_w = cols * tile_w + (cols - 1) * gap, canvas_h likewise with rows
CanvasExtent(count, tile, gap) == count * tile + (count - 1) * gap

\* the <<canvas_w, canvas_h>> build_flag_grid allocates for n tiles of tile size
\* <<tile_w, tile_h>>, requested cols and gap
GridCanvasSize(n, tile, cols, gap) ==
    LET c == EffectiveCols(cols, n)
        r == GridRows(n, c)
        g == EffectiveGap(gap)
    IN  <<CanvasExtent(c, tile[1], g), CanvasExtent(r, tile[2], g)>>

\* a slip: the tiles are laid out column by column
TilePosition_ColumnMajor(idx, cols, tile, gap) ==
    << (idx \div cols) * (tile[1] + gap), (idx % cols) * (tile[2] + gap) >>

\* where tile idx (from 0) is composited: x = c*(tile_w+gap), y = r*(tile_h+gap)
TilePosition(idx, cols, tile, gap) ==
    << (idx % cols) * (tile[1] + gap), (idx \div cols) * (tile[2] + gap) >>

\* box_w = int(round(ratio_w_over_h * box_h)) with ratio_w_over_h = 2.0
BoxWidth(box_h) == 2 * box_h

(* ----------------------------------------------------------------------- *)
(* Background colour                                                        *)
(* ----------------------------------------------------------------------- *)
HexDigitChars == <<"0","1","2","3","4","5","6","7","8","9",
                   "a","b","c","d","e","f">>

IsHexDigit(c) == \E i \in 1..16 : HexDigitChars[i] = LowerChar(c)

\* value of one hexadecimal digit, either letter case
HexDigitValue(c) == (CHOOSE i \in 1..16 : HexDigitChars[i] = LowerChar(c)) - 1

RECURSIVE HexDigitsValue(_, _)
HexDigitsValue(s, acc) ==
    IF s = <<>> THEN acc
    ELSE HexDigitsValue(Tail(s), 16 * acc + HexDigitValue(Head(s)))

\* int(s, 16) for the two-character slices hex_to_rgba takes: <<value>>, or <<>>
\* where Python raises ValueError.  Surrounding whitespace is stripped, one sign
\* is accepted, the rest must be hex digits (a 0x prefix or an underscore needs
\* three characters)
IntBase16(s) ==
    LET t      == Strip(s)
        signed == t # <<>> /\ Head(t) \in {"+", "-"}
        digits == IF signed THEN Tail(t) ELSE t
    IN  IF digits = <<>> \/ \E i \in 1..Len(digits) : ~ IsHexDigit(digits[i])
        THEN <<>>
        ELSE IF signed /\ Head(t) = "-"
             THEN <<0 - HexDigitsValue(digits, 0)>>
             ELSE <<HexDigitsValue(digits, 0)>>

Transparent == <<"t","r","a","n","s","p","a","r","e","n","t">>

\* a slip: each nibble is padded with 0 instead of doubled
ExpandNibbles_Padded(col) ==
    <<"#">> \o [i \in 1..(2 * (Len(col) - 1)) |->
                  IF i % 2 = 1 THEN col[1 + ((i + 1) \div 2)] ELSE "0"]

\* "#" + "".join([c * 2 for c in col[1:]])
ExpandNibbles(col) ==
    <<"#">> \o [i \in 1..(2 * (Len(col) - 1)) |-> col[1 + ((i + 1) \div 2)]]

\* what hex_to_rgba(col) does: returns None, returns a colour, or raises
ReturnsNone == [kind |-> "None", rgba |-> <<>>]
RaisesValueError == [kind |-> "ValueError", rgba |-> <<>>]
ReturnsColour(c) == [kind |-> "rgba", rgba |-> c]

\* hex_to_rgba: None for the keyword, (r, g, b, 255) for a hex colour, the
\* white fallback otherwise; ValueError where int(.., 16) raises
hex_to_rgba(col) ==
    IF Lower(col) = Transparent THEN ReturnsNone
    ELSE IF col # <<>> /\ Head(col) = "#" /\ Len(col) \in {4, 7}
    THEN LET full == IF Len(col) = 4 THEN ExpandNibbles(col) ELSE col
             r == IntBase16(SubSeq(full, 2, 3))
             g == IntBase16(SubSeq(full, 4, 5))
             b == IntBase16(SubSeq(full, 6, 7))
         IN  IF r = <<>> \/ g = <<>> \/ b = <<>> THEN RaisesValueError
             ELSE ReturnsColour(<<r[1], g[1], b[1], 255>>)
    ELSE ReturnsColour(<<255, 255, 255, 255>>)

\* the colour build_flag_grid fills the new canvas with:
\* (0, 0, 0, 0) if bg_rgba is None else bg_rgba
CanvasFill(bg_rgba) ==
    IF bg_rgba.kind = "None" THEN <<0, 0, 0, 0>> ELSE bg_rgba.rgba

(* ----------------------------------------------------------------------- *)
(* Inputs drawn by the model                                                *)
(* ----------------------------------------------------------------------- *)
\* an optional value: <<>> when absent, <<v>> when present
Absent == <<>>
Present(v) == <<v>>

\* the code strings a caller sends: "", " ", "AU", "au", "zz "
RawCodes == { <<>>, <<" ">>, <<"A","U">>, <<"a","u">>, <<"z","z"," ">> }

CodeLists == UNION { [1..n -> RawCodes] : n \in 0..MaxCodes }

\* the values of the codes query parameter: "", "au", " ,", "AU, zz"
CodeParams == { <<>>, <<"a","u">>, <<" ",",">>,
                <<"A","U",","," ","z","z">> }

\* the optional parameters of a flag grid request, absent ones left to the
\* defaults; the values are the integers that int() returns
FlagParams ==
    { [cols |-> Absent, gap |-> Absent, tile_height |-> Absent,
       bg |-> Absent, fit_mode |-> Absent],
      [cols |-> Present(2), gap |-> Present(10), tile_height |-> Present(100),
       bg |-> Present(<<"T","r","a","n","s","p","a","r","e","n","t">>),
       fit_mode |-> Present("pad")],
      [cols |-> Present(0), gap |-> Present(0 - 1), tile_height |-> Present(1),
       bg |-> Present(<<"#","f","f","f">>), fit_mode |-> Present("crop")],
      [cols |-> Present(8), gap |-> Present(12), tile_height |-> Present(250),
       bg |-> Present(<<"#","g","g","g">>), fit_mode |-> Present("stretch")] }

NoFlagParams ==
    [cols |-> Absent, gap |-> Absent, tile_height |-> Absent,
     bg |-> Absent, fit_mode |-> Absent]

\* the requests: an OPTIONS preflight, a GET with query parameters, a POST
\* with a JSON body (whose "codes" may be no list) and query parameters.  The
\* codes parameter is read only when the body gave no codes, and the flag
\* parameters only by the flag endpoint, so they vary only there.
Requests(ep) ==
    LET flagsOf == IF ep = "flags" THEN FlagParams ELSE {NoFlagParams}
    IN  { [method |-> "OPTIONS", is_json |-> FALSE, body_codes |-> Absent,
           param |-> Absent, flag |-> NoFlagParams] }
        \cup
        { [method |-> "GET", is_json |-> FALSE, body_codes |-> Absent,
           param |-> q, flag |-> f] :
             q \in {Absent} \cup {Present(c) : c \in CodeParams}, f \in flagsOf }
        \cup
        { [method |-> "POST", is_json |-> TRUE, body_codes |-> b,
           param |-> Absent, flag |-> f] :
             b \in {Present(l) : l \in CodeLists \ {<<>>}}, f \in flagsOf }
        \cup
        { [method |-> "POST", is_json |-> TRUE, body_codes |-> b,
           param |-> q, flag |-> f] :
             b \in {Absent, Present(<<>>)},
             q \in {Absent} \cup {Present(c) : c \in CodeParams}, f \in flagsOf }

\* sizes <<w, h>> of the stamp images in the bucket
StampImageSizes == { <<1000, 4000>> }

\* the scale factors random.uniform(MIN_SCALE, MAX_SCALE) is sampled at, in
\* tenths; the rotation angle is sampled at 0, which keeps the scaled size
ScaleSamples == { MIN_SCALE_TENTHS, MAX_SCALE_TENTHS }

\* the values random.randint(lo, hi) is sampled at: both ends
RandIntSamples(lo, hi) == { lo, hi }

\* strftime("%Y%m%dT%H%M%SZ") of the clock, and the six random characters
Timestamps == { "20240101T000000Z" }
RandomSuffixes == { "abc123", "x9y8z7" }

(* ----------------------------------------------------------------------- *)
(* State                                                                    *)
(* ----------------------------------------------------------------------- *)
VARIABLES
    pc,            \* where each invocation is
    endpoint,      \* "stamps" (compose_passport_stamps_http) or "flags"
    req,           \* the request of each invocation
    args,          \* the arguments the handler passes to the pipeline
    codes,         \* the pipeline's normalised codes
    fetched,       \* the answer of each Fetch so far: TRUE when the blob exists
    fetchCalls,    \* how many times Fetch was called
    placed,        \* compose_passport_stamps: placed
    missing,       \* both pipelines: missing
    placed_boxes,  \* compose_passport_stamps: placed_boxes
    tiles,         \* build_flag_grid: tiles, as [code, size]
    canvas,        \* the invocation's canvas: [size, fill, pasted, mode]
    persistCalls,  \* the calls of _save_canvas_to_gcs, as [filename, canvas, ok]
    err,           \* the exception that ended the invocation, "" when none
    status,        \* the HTTP status answered, 0 before the answer
    result,        \* the dict the pipeline returned, as <<>> or <<dict>>
    bucket,        \* the objects stored in the bucket by the invocations
    unit,          \* a function applied on its own: [fn, in, out]
    _storage_client, \* the module global: 0 for None, else the invocation
                   \* whose storage.Client() call made the client
    client         \* get_storage_client() as each invocation runs it

vars == << pc, endpoint, req, args, codes, fetched, fetchCalls, placed, missing,
           placed_boxes, tiles, canvas, persistCalls, err, status, result,
           bucket, unit, _storage_client, client >>

\* the variables get_storage_client leaves alone
InvocationVars == << pc, endpoint, req, args, codes, fetched, fetchCalls,
                     placed, missing, placed_boxes, tiles, canvas,
                     persistCalls, err, status, result, bucket >>

\* the invocations
Invocations == { 1 }

NoArgs == [codes |-> <<>>, cols |-> 0, gap |-> 0, tile_height |-> 0,
           bg |-> <<>>, fit_mode |-> ""]

NoCanvas == [size |-> <<0, 0>>, fill |-> <<>>, pasted |-> <<>>, mode |-> ""]

NoUnit == [fn |-> "", in |-> <<>>, out |-> <<>>, applied |-> FALSE]

\* get_storage_client() is not running and its result is not in use
NoClient == [stage |-> "idle", held |-> 0]

\* the locals of the invocations ps, none of which has started
InitLocals(ps) ==
    /\ pc = [p \in ps |-> "handler"]
    /\ args = [p \in ps |-> NoArgs]
    /\ codes = [p \in ps |-> <<>>]
    /\ fetched = [p \in ps |-> <<>>]
    /\ fetchCalls = [p \in ps |-> 0]
    /\ placed = [p \in ps |-> <<>>]
    /\ missing = [p \in ps |-> <<>>]
    /\ placed_boxes = [p \in ps |-> <<>>]
    /\ tiles = [p \in ps |-> <<>>]
    /\ canvas = [p \in ps |-> NoCanvas]
    /\ persistCalls = [p \in ps |-> <<>>]
    /\ err = [p \in ps |-> ""]
    /\ status = [p \in ps |-> 0]
    /\ result = [p \in ps |-> <<>>]
    /\ bucket = {}
    /\ _storage_client = 0
    /\ client = [p \in ps |-> NoClient]

\* a request arrives at one of the two endpoints
Init ==
    /\ InitLocals(Invocations)
    /\ \E ep \in {"stamps", "flags"} :
          /\ endpoint = [p \in Invocations |-> ep]
          /\ req \in [Invocations -> Requests(ep)]
    /\ unit = NoUnit

(* ----------------------------------------------------------------------- *)
(* The HTTP handlers                                                        *)
(* ----------------------------------------------------------------------- *)
\* the codes a handler ends up with: the JSON body's list when it is a
\* non-empty list, else the split and stripped query parameter, else []
HandlerCodes(r) ==
    LET fromBody == IF r.is_json /\ Len(r.body_codes) = 1
                    THEN r.body_codes[1] ELSE <<>>
    IN  IF Truthy(fromBody) THEN fromBody
        ELSE IF Len(r.param) = 1 /\ Truthy(r.param[1])
             THEN ParseCodesParam(r.param[1])
             ELSE <<>>

OrDefault(opt, default) == IF Len(opt) = 1 THEN opt[1] ELSE default

\* the arguments flag_grid_http passes on: data.get(k, req.args.get(k, default))
HandlerArgs(r) ==
    [codes |-> HandlerCodes(r),
     cols |-> OrDefault(r.flag.cols, DEFAULT_COLS),
     gap |-> OrDefault(r.flag.gap, DEFAULT_GAP),
     tile_height |-> OrDefault(r.flag.tile_height, DEFAULT_TILE_HEIGHT),
     bg |-> OrDefault(r.flag.bg, Transparent),
     fit_mode |-> OrDefault(r.flag.fit_mode, "pad")]

\* the invocation ends: the handler answers with st (err names the exception
\* its except clause caught, "" when there was none)
Ends(p, st, e) ==
    /\ pc' = [pc EXCEPT ![p] = "done"]
    /\ status' = [status EXCEPT ![p] = st]
    /\ err' = [err EXCEPT ![p] = e]

\* an exception leaves the pipeline: except Exception -> status 500
Raises(p, e) == Ends(p, 500, e)

\* if req.method == "OPTIONS": return Response("", status=204)
HttpOptions(p) ==
    /\ pc[p] = "handler"
    /\ req[p].method = "OPTIONS"
    /\ Ends(p, 204, "")
    /\ UNCHANGED << endpoint, req, args, codes, fetched, fetchCalls, placed,
                    missing, placed_boxes, tiles, canvas, persistCalls, result,
                    bucket, unit,
                    _storage_client, client >>

\* if not codes: return Response({"ok": False, ...}, status=400)
HttpNoCodes(p) ==
    /\ pc[p] = "handler"
    /\ req[p].method # "OPTIONS"
    /\ ~ Truthy(HandlerCodes(req[p]))
    /\ Ends(p, 400, "")
    /\ UNCHANGED << endpoint, req, args, codes, fetched, fetchCalls, placed,
                    missing, placed_boxes, tiles, canvas, persistCalls, result,
                    bucket, unit,
                    _storage_client, client >>

\* result = main.compose_passport_stamps(codes) / main.build_flag_grid(...)
HttpCall(p) ==
    /\ pc[p] = "handler"
    /\ req[p].method # "OPTIONS"
    /\ Truthy(HandlerCodes(req[p]))
    /\ args' = [args EXCEPT ![p] = HandlerArgs(req[p])]
    /\ pc' = [pc EXCEPT ![p] = "call"]
    /\ UNCHANGED << endpoint, req, codes, fetched, fetchCalls, placed, missing,
                    placed_boxes, tiles, canvas, persistCalls, err, status,
                    result, bucket, unit,
                    _storage_client, client >>

(* ----------------------------------------------------------------------- *)
(* The pipelines: compose_passport_stamps and build_flag_grid               *)
(* ----------------------------------------------------------------------- *)
NormalizeCodes(ep, cs) ==
    IF ep = "stamps" THEN NormalizeStampCodes(cs) ELSE NormalizeFlagCodes(cs)

\* if not codes: raise ValueError("No country codes provided.")
RaiseInvalidInput(p) ==
    /\ pc[p] = "call"
    /\ ~ Truthy(NormalizeCodes(endpoint[p], args[p].codes))
    /\ Raises(p, "InvalidInput")
    /\ UNCHANGED << endpoint, req, args, codes, fetched, fetchCalls, placed,
                    missing, placed_boxes, tiles, canvas, persistCalls, result,
                    bucket, unit,
                    _storage_client, client >>

\* canvas = Image.new("RGBA", (CANVAS_WIDTH, CANVAS_HEIGHT), (0, 0, 0, 0))
NewStampCanvas ==
    [size |-> <<CANVAS_WIDTH, CANVAS_HEIGHT>>, fill |-> <<0, 0, 0, 0>>,
     pasted |-> <<>>, mode |-> "RGBA"]

\* the codes are normalised and the per-code loop is entered
StartLoop(p) ==
    /\ pc[p] = "call"
    /\ Truthy(NormalizeCodes(endpoint[p], args[p].codes))
    /\ codes' = [codes EXCEPT ![p] = NormalizeCodes(endpoint[p], args[p].codes)]
    /\ canvas' = [canvas EXCEPT ![p] =
                    IF endpoint[p] = "stamps" THEN NewStampCanvas ELSE @]
    /\ pc' = [pc EXCEPT ![p] = "loop"]
    /\ UNCHANGED << endpoint, req, args, fetched, fetchCalls, placed, missing,
                    placed_boxes, tiles, persistCalls, err, status, result,
                    bucket, unit,
                    _storage_client, client >>

\* the loop has gone through every code
LoopOver(p) == pc[p] = "loop" /\ Len(fetched[p]) = Len(codes[p])

\* the code the loop is at
InLoop(p) == pc[p] = "loop" /\ Len(fetched[p]) < Len(codes[p])
CurrentCode(p) == codes[p][Len(fetched[p]) + 1]

\* _load_*_from_gcs raises: the bucket is not configured, or the transport or
\* the decoding of the image fails
FetchFails(p) ==
    /\ InLoop(p)
    /\ client' = [client EXCEPT ![p] = NoClient]
    /\ fetchCalls' = [fetchCalls EXCEPT ![p] = @ + 1]
    /\ Raises(p, "StorageFailure")
    /\ UNCHANGED << endpoint, req, args, codes, fetched, placed, missing,
                    placed_boxes, tiles, canvas, persistCalls, result, bucket,
                    unit,
                    _storage_client >>

\* a slip: the absent code is skipped without being recorded
FetchAbsent_Unrecorded(p) ==
    /\ InLoop(p)
    /\ client[p].stage = "held"
    /\ client' = [client EXCEPT ![p] = NoClient]
    /\ fetchCalls' = [fetchCalls EXCEPT ![p] = @ + 1]
    /\ fetched' = [fetched EXCEPT ![p] = Append(@, FALSE)]
    /\ UNCHANGED << pc, endpoint, req, args, codes, placed, missing,
                    placed_boxes, tiles, canvas, persistCalls, err, status,
                    result, bucket, unit,
                    _storage_client >>

\* a slip: missing is one list shared by the invocations
FetchAbsent_Shared(p) ==
    /\ InLoop(p)
    /\ client[p].stage = "held"
    /\ client' = [client EXCEPT ![p] = NoClient]
    /\ fetchCalls' = [fetchCalls EXCEPT ![p] = @ + 1]
    /\ fetched' = [fetched EXCEPT ![p] = Append(@, FALSE)]
    /\ missing' = [q \in DOMAIN missing |-> Append(missing[q], CurrentCode(p))]
    /\ UNCHANGED << pc, endpoint, req, args, codes, placed, placed_boxes, tiles,
                    canvas, persistCalls, err, status, result, bucket, unit,
                    _storage_client >>

\* blob.exists() is false: missing.append(code); continue
FetchAbsent(p) ==
    /\ InLoop(p)
    /\ client[p].stage = "held"
    /\ client' = [client EXCEPT ![p] = NoClient]
    /\ fetchCalls' = [fetchCalls EXCEPT ![p] = @ + 1]
    /\ fetched' = [fetched EXCEPT ![p] = Append(@, FALSE)]
    /\ missing' = [missing EXCEPT ![p] = Append(@, CurrentCode(p))]
    /\ UNCHANGED << pc, endpoint, req, args, codes, placed, placed_boxes, tiles,
                    canvas, persistCalls, err, status, result, bucket, unit,
                    _storage_client >>

\* _random_transform at scale s (in tenths) and angle 0: the size of the result
\* new_w = max(1, int(img.width * scale)), new_h likewise
_random_transform(img, s) ==
    << Max(1, (img[1] * s) \div 10), Max(1, (img[2] * s) \div 10) >>

\* a slip: the upper ends of the ranges are not kept at 0 or above
CandidatePositions_Unclamped(img_w, img_h) ==
    { <<x, y>> : x \in RandIntSamples(0, CANVAS_WIDTH - img_w),
                 y \in RandIntSamples(0, CANVAS_HEIGHT - img_h) }

\* the positions randint draws for an image of img_w by img_h
CandidatePositions(img_w, img_h) ==
    { <<x, y>> : x \in RandIntSamples(0, Max(0, CANVAS_WIDTH - img_w)),
                 y \in RandIntSamples(0, Max(0, CANVAS_HEIGHT - img_h)) }

OverlapsAny(box, boxes) ==
    \E i \in 1..Len(boxes) : _boxes_overlap(box, boxes[i])

\* the positions _choose_position can return: a candidate that overlaps no
\* placed box, returned from the retry loop, or, when every one of the
\* OVERLAP_RETRIES candidates overlapped, the position drawn after the loop
_choose_position(img_w, img_h, boxes) ==
    LET cands == CandidatePositions(img_w, img_h)
        free  == { c \in cands : ~ OverlapsAny(<<c[1], c[2], img_w, img_h>>, boxes) }
    IN  free \cup (IF OVERLAP_RETRIES >= 1 /\ free # cands THEN cands ELSE {})

\* a slip: a code already placed is composited but not appended again
PlaceStamp_Distinct(p) ==
    /\ InLoop(p)
    /\ client[p].stage = "held"
    /\ client' = [client EXCEPT ![p] = NoClient]
    /\ endpoint[p] = "stamps"
    /\ \E img \in StampImageSizes, s \in ScaleSamples :
         LET t == _random_transform(img, s)
         IN  \E pos \in _choose_position(t[1], t[2], placed_boxes[p]) :
               LET box == <<pos[1], pos[2], t[1], t[2]>>
               IN  /\ canvas' = [canvas EXCEPT ![p].pasted = Append(@, box)]
                   /\ placed_boxes' = [placed_boxes EXCEPT ![p] = Append(@, box)]
    /\ placed' = [placed EXCEPT ![p] =
                    IF \E i \in 1..Len(@) : @[i] = CurrentCode(p)
                    THEN @ ELSE Append(@, CurrentCode(p))]
    /\ fetchCalls' = [fetchCalls EXCEPT ![p] = @ + 1]
    /\ fetched' = [fetched EXCEPT ![p] = Append(@, TRUE)]
    /\ UNCHANGED << pc, endpoint, req, args, codes, missing, tiles, persistCalls,
                    err, status, result, bucket, unit,
                    _storage_client >>

\* the stamp exists: transform it, choose a position, composite it, record its
\* box and append the code to placed
PlaceStamp(p) ==
    /\ InLoop(p)
    /\ client[p].stage = "held"
    /\ client' = [client EXCEPT ![p] = NoClient]
    /\ endpoint[p] = "stamps"
    /\ \E img \in StampImageSizes, s \in ScaleSamples :
         LET t == _random_transform(img, s)
         IN  \E pos \in _choose_position(t[1], t[2], placed_boxes[p]) :
               LET box == <<pos[1], pos[2], t[1], t[2]>>
               IN  /\ canvas' = [canvas EXCEPT ![p].pasted = Append(@, box)]
                   /\ placed_boxes' = [placed_boxes EXCEPT ![p] = Append(@, box)]
    /\ placed' = [placed EXCEPT ![p] = Append(@, CurrentCode(p))]
    /\ fetchCalls' = [fetchCalls EXCEPT ![p] = @ + 1]
    /\ fetched' = [fetched EXCEPT ![p] = Append(@, TRUE)]
    /\ UNCHANGED << pc, endpoint, req, args, codes, missing, tiles, persistCalls,
                    err, status, result, bucket, unit,
                    _storage_client >>

\* make_uniform_tile_from_bytes: the size of the tile it returns; for a
\* positive box_h, as the requests drawn have it, each fit mode ends in an
\* image of box_w by box_h
TileSize(box_h, fit_mode) == << BoxWidth(box_h), box_h >>

\* the flag exists: tiles.append((code, tile))
LoadFlagTile(p) ==
    /\ InLoop(p)
    /\ client[p].stage = "held"
    /\ client' = [client EXCEPT ![p] = NoClient]
    /\ endpoint[p] = "flags"
    /\ tiles' = [tiles EXCEPT ![p] =
                   Append(@, [code |-> CurrentCode(p),
                              size |-> TileSize(args[p].tile_height,
                                                args[p].fit_mode)])]
    /\ fetchCalls' = [fetchCalls EXCEPT ![p] = @ + 1]
    /\ fetched' = [fetched EXCEPT ![p] = Append(@, TRUE)]
    /\ UNCHANGED << pc, endpoint, req, args, codes, placed, missing,
                    placed_boxes, canvas, persistCalls, err, status, result,
                    bucket, unit,
                    _storage_client >>


\* the codes build_flag_grid returns as placed: [code for code, _ in tiles]
TileCodes(ts) == [i \in 1..Len(ts) |-> ts[i].code]

\* what the pipeline has resolved so far
Resolved(p) == IF endpoint[p] = "stamps" THEN placed[p] ELSE TileCodes(tiles[p])

\* if not placed / if not tiles: raise ValueError("No ... found")
RaiseNoAssets(p) ==
    /\ LoopOver(p)
    /\ ~ Truthy(Resolved(p))
    /\ Raises(p, "NoAssetsResolved")
    /\ UNCHANGED << endpoint, req, args, codes, fetched, fetchCalls, placed,
                    missing, placed_boxes, tiles, canvas, persistCalls, result,
                    bucket, unit,
                    _storage_client, client >>

\* a slip: the empty check is left out
FinishStamps_Unchecked(p) ==
    /\ LoopOver(p)
    /\ endpoint[p] = "stamps"
    /\ pc' = [pc EXCEPT ![p] = "persist"]
    /\ UNCHANGED << endpoint, req, args, codes, fetched, fetchCalls, placed,
                    missing, placed_boxes, tiles, canvas, persistCalls, err,
                    status, result, bucket, unit,
                    _storage_client, client >>

\* compose_passport_stamps: the canvas is complete
FinishStamps(p) ==
    /\ LoopOver(p)
    /\ endpoint[p] = "stamps"
    /\ Truthy(placed[p])
    /\ pc' = [pc EXCEPT ![p] = "persist"]
    /\ UNCHANGED << endpoint, req, args, codes, fetched, fetchCalls, placed,
                    missing, placed_boxes, tiles, canvas, persistCalls, err,
                    status, result, bucket, unit,
                    _storage_client, client >>

\* the boxes at which build_flag_grid composites n tiles of one size
TileBoxes(n, tile, cols, gap) ==
    [i \in 1..n |->
        LET pos == TilePosition(i - 1, cols, tile, gap)
        IN  <<pos[1], pos[2], tile[1], tile[2]>>]

\* the canvas build_flag_grid ends with: the grid geometry from the first
\* tile's size, the background fill, every tile composited; RGBA is kept for
\* a transparent background and converted to RGB otherwise
GridCanvas(ts, cols, gap, bg_rgba) ==
    LET n    == Len(ts)
        tile == ts[1].size
    IN  [size |-> GridCanvasSize(n, tile, cols, gap),
         fill |-> CanvasFill(bg_rgba),
         pasted |-> TileBoxes(n, tile, EffectiveCols(cols, n), EffectiveGap(gap)),
         mode |-> IF bg_rgba.kind = "None" THEN "RGBA" ELSE "RGB"]

\* build_flag_grid after the loop: hex_to_rgba(bg) raises
RaiseBadBackground(p) ==
    /\ LoopOver(p)
    /\ endpoint[p] = "flags"
    /\ Truthy(tiles[p])
    /\ hex_to_rgba(args[p].bg).kind = "ValueError"
    /\ Raises(p, "ValueError")
    /\ UNCHANGED << endpoint, req, args, codes, fetched, fetchCalls, placed,
                    missing, placed_boxes, tiles, canvas, persistCalls, result,
                    bucket, unit,
                    _storage_client, client >>

\* a slip: the grid is composited and saved inside the loop, after each tile
ComposeGrid_InLoop(p) ==
    /\ pc[p] = "loop"
    /\ endpoint[p] = "flags"
    /\ Truthy(tiles[p])
    /\ hex_to_rgba(args[p].bg).kind # "ValueError"
    /\ canvas' = [canvas EXCEPT ![p] =
                    GridCanvas(tiles[p], args[p].cols, args[p].gap,
                               hex_to_rgba(args[p].bg))]
    /\ pc' = [pc EXCEPT ![p] = "persist"]
    /\ UNCHANGED << endpoint, req, args, codes, fetched, fetchCalls, placed,
                    missing, placed_boxes, tiles, persistCalls, err, status,
                    result, bucket, unit,
                    _storage_client, client >>

\* build_flag_grid after the loop: the grid is laid out and composited
ComposeGrid(p) ==
    /\ LoopOver(p)
    /\ endpoint[p] = "flags"
    /\ Truthy(tiles[p])
    /\ hex_to_rgba(args[p].bg).kind # "ValueError"
    /\ canvas' = [canvas EXCEPT ![p] =
                    GridCanvas(tiles[p], args[p].cols, args[p].gap,
                               hex_to_rgba(args[p].bg))]
    /\ pc' = [pc EXCEPT ![p] = "persist"]
    /\ UNCHANGED << endpoint, req, args, codes, fetched, fetchCalls, placed,
                    missing, placed_boxes, tiles, persistCalls, err, status,
                    result, bucket, unit,
                    _storage_client, client >>

\* _random_filename(prefix): prefix_timestamp_random.png
_random_filename(prefix, ts, rand) == <<prefix, ts, rand, "png">>

FilenamePrefix(ep) == IF ep = "stamps" THEN "stamps" ELSE "flags"

\* _save_canvas_to_gcs uploads the canvas and the pipeline returns; the
\* handler answers 200
PersistOk(p) ==
    /\ pc[p] = "persist"
    /\ client[p].stage = "held"
    /\ client' = [client EXCEPT ![p] = NoClient]
    /\ \E ts \in Timestamps, rand \in RandomSuffixes :
         LET filename == _random_filename(FilenamePrefix(endpoint[p]), ts, rand)
         IN  /\ persistCalls' = [persistCalls EXCEPT ![p] =
                  Append(@, [filename |-> filename, canvas |-> canvas[p],
                             ok |-> TRUE])]
             /\ bucket' = { o \in bucket : o.path # filename }
                            \cup { [path |-> filename, by |-> p] }
             /\ result' = [result EXCEPT ![p] =
                  << [filename |-> filename, placed |-> Resolved(p),
                      missing |-> missing[p]] >>]
    /\ Ends(p, 200, "")
    /\ UNCHANGED << endpoint, req, args, codes, fetched, fetchCalls, placed,
                    missing, placed_boxes, tiles, canvas, unit,
                    _storage_client >>

\* _save_canvas_to_gcs raises (the upload fails)
PersistFails(p) ==
    /\ pc[p] = "persist"
    /\ client' = [client EXCEPT ![p] = NoClient]
    /\ \E ts \in Timestamps, rand \in RandomSuffixes :
         LET filename == _random_filename(FilenamePrefix(endpoint[p]), ts, rand)
         IN  persistCalls' = [persistCalls EXCEPT ![p] =
                  Append(@, [filename |-> filename, canvas |-> canvas[p],
                             ok |-> FALSE])]
    /\ Raises(p, "StorageFailure")
    /\ UNCHANGED << endpoint, req, args, codes, fetched, fetchCalls, placed,
                    missing, placed_boxes, tiles, canvas, result, bucket, unit,
                    _storage_client >>

\* the invocation is about to call the storage service: to fetch the image of
\* the code the loop is at, or to upload the canvas
AtStorageCall(p) == InLoop(p) \/ pc[p] = "persist"

\* get_storage_client: if _storage_client is None
ClientCheck(p) ==
    /\ AtStorageCall(p)
    /\ client[p].stage = "idle"
    /\ client' = [client EXCEPT ![p].stage =
                    IF _storage_client = 0 THEN "create" ELSE "return"]
    /\ UNCHANGED << InvocationVars, unit, _storage_client >>

\* get_storage_client: _storage_client = storage.Client()
ClientCreate(p) ==
    /\ client[p].stage = "create"
    /\ _storage_client' = p
    /\ client' = [client EXCEPT ![p].stage = "return"]
    /\ UNCHANGED << InvocationVars, unit >>

\* get_storage_client: return _storage_client
ClientReturn(p) ==
    /\ client[p].stage = "return"
    /\ client' = [client EXCEPT ![p] = [stage |-> "held",
                                        held |-> _storage_client]]
    /\ UNCHANGED << InvocationVars, unit, _storage_client >>

Next ==
    \E p \in Invocations :
        \/ HttpOptions(p)
        \/ HttpNoCodes(p)
        \/ HttpCall(p)
        \/ RaiseInvalidInput(p)
        \/ StartLoop(p)
        \/ FetchFails(p)
        \/ FetchAbsent(p)
        \/ PlaceStamp(p)
        \/ LoadFlagTile(p)
        \/ RaiseNoAssets(p)
        \/ FinishStamps(p)
        \/ RaiseBadBackground(p)
        \/ ComposeGrid(p)
        \/ PersistOk(p)
        \/ PersistFails(p)
        \/ ClientCheck(p)
        \/ ClientCreate(p)
        \/ ClientReturn(p)

Spec == Init /\ [][Next]_vars

(* ----------------------------------------------------------------------- *)
(* Properties of the pipelines and the handlers (specification Spec)        *)
(* ----------------------------------------------------------------------- *)
Done(p) == pc[p] = "done"

\* the pipeline was entered
Called(p) == Truthy(args[p].codes)

\* the pipeline returned its result
Returned(p) == Len(result[p]) = 1

AllResolved(p) == \A i \in 1..Len(fetched[p]) : fetched[p][i]
NoneResolved(p) == \A i \in 1..Len(fetched[p]) : ~ fetched[p][i]

\* the loop has fetched every code
LoopCompleted(p) == Truthy(codes[p]) /\ Len(fetched[p]) = Len(codes[p])

\* the entries of cs whose Fetch answer was b, in order
RECURSIVE WithAnswer(_, _, _)
WithAnswer(cs, answers, b) ==
    IF answers = <<>> \/ cs = <<>> THEN <<>>
    ELSE (IF Head(answers) = b THEN <<Head(cs)>> ELSE <<>>)
         \o WithAnswer(Tail(cs), Tail(answers), b)

\* C1 as stated: in the stamp pipeline, when every code of a non-empty list
\* resolves, missing is empty, placed is as long as the number of distinct
\* resolved codes, and placed is in input order, also when a code repeats.
C1_DistinctCount ==
    \A p \in Invocations :
        (endpoint[p] = "stamps" /\ Returned(p) /\ AllResolved(p))
        => /\ result[p][1].missing = <<>>
           /\ Len(result[p][1].placed)
                = Cardinality({ codes[p][i] : i \in 1..Len(codes[p]) })
           /\ result[p][1].placed = codes[p]

\* C1 as amended: in the stamp pipeline, when every code of a non-empty list
\* resolves, missing is empty and placed is the normalised input list itself:
\* one entry per resolved occurrence, a repeated code counted each time, in
\* input order.
C1_PlacedPerOccurrence ==
    \A p \in Invocations :
        (endpoint[p] = "stamps" /\ Returned(p) /\ AllResolved(p))
        => /\ result[p][1].missing = <<>>
           /\ Len(result[p][1].placed) = Len(codes[p])
           /\ result[p][1].placed = codes[p]

\* C1 witness: a stamp run returned for a list that repeats a resolving code
C1_Witness ==
    \E p \in Invocations :
        /\ endpoint[p] = "stamps" /\ Returned(p) /\ AllResolved(p)
        /\ Len(codes[p]) = 2 /\ codes[p][1] = codes[p][2]

\* C2: in both pipelines, when the loop has gone through a non-empty
\* normalised list and no code resolved, the invocation goes nowhere but to
\* the NoAssetsResolved failure, and Persist has not been called.
C2_NoAssetsResolved ==
    \A p \in Invocations :
        (LoopCompleted(p) /\ NoneResolved(p))
        => /\ pc[p] \in {"loop", "done"}
           /\ Done(p) => err[p] = "NoAssetsResolved"
           /\ persistCalls[p] = <<>>
           /\ ~ Returned(p)

\* C2 witness: a run of each pipeline ended in NoAssetsResolved
C2_Witness ==
    \E p \in Invocations :
        /\ LoopCompleted(p) /\ NoneResolved(p) /\ Len(codes[p]) = 2
        /\ Done(p) /\ err[p] = "NoAssetsResolved" /\ endpoint[p] = "flags"

\* C3: in both pipelines, once the loop has gone through every code, placed
\* holds exactly the occurrences Fetch resolved and missing exactly those it
\* did not, both in input order; an absent code leaves the run in the loop.
C3_PlacedOrMissing ==
    \A p \in Invocations :
        /\ LoopCompleted(p)
           => /\ Resolved(p) = WithAnswer(codes[p], fetched[p], TRUE)
              /\ missing[p] = WithAnswer(codes[p], fetched[p], FALSE)
              /\ Len(Resolved(p)) + Len(missing[p]) = Len(codes[p])
        /\ Returned(p)
           => /\ result[p][1].placed = WithAnswer(codes[p], fetched[p], TRUE)
              /\ result[p][1].missing = WithAnswer(codes[p], fetched[p], FALSE)

\* C3 witness: codes [au, zz] with only au resolving returned placed = [au],
\* missing = [zz]
C3_Witness ==
    \E p \in Invocations :
        /\ codes[p] = << <<"a","u">>, <<"z","z">> >>
        /\ fetched[p] = <<TRUE, FALSE>>
        /\ Returned(p)
        /\ result[p][1].placed = << <<"a","u">> >>
        /\ result[p][1].missing = << <<"z","z">> >>

\* the invocation failed: the handler answered with an error
Failed(p) == Done(p) /\ status[p] \in {400, 500}

\* the Persist calls of p were made with every code fetched and every
\* resolved asset composited
PersistAfterAll(p) ==
    \A i \in 1..Len(persistCalls[p]) :
        /\ LoopCompleted(p)
        /\ Len(persistCalls[p][i].canvas.pasted) = Len(Resolved(p))
        /\ Len(Resolved(p)) + Len(missing[p]) = Len(codes[p])

C4_PersistFailureWitness ==
    \E p \in Invocations :
        Failed(p) /\ Len(persistCalls[p]) = 1 /\ ~ persistCalls[p][1].ok

\* what the stamp pipeline is to keep of one code: "" is dropped, every other
\* code is kept lowercased (and not trimmed)
ExpectedStampCode(c) ==
    IF c = <<>> THEN <<>>
    ELSE IF c = <<" ">> THEN << <<" ">> >>
    ELSE IF c \in { <<"A","U">>, <<"a","u">> } THEN << <<"a","u">> >>
    ELSE IF c = <<"z","z"," ">> THEN << <<"z","z"," ">> >>
    ELSE << <<"z","z">> >>

\* what the flag pipeline is to keep of one code: "" and " " are dropped,
\* every other code is kept trimmed and lowercased
ExpectedFlagCode(c) ==
    IF c \in { <<>>, <<" ">> } THEN <<>>
    ELSE IF c \in { <<"A","U">>, <<"a","u">> } THEN << <<"a","u">> >>
    ELSE << <<"z","z">> >>

RECURSIVE ExpectedCodes(_, _)
ExpectedCodes(ep, cs) ==
    IF cs = <<>> THEN <<>>
    ELSE (IF ep = "stamps" THEN ExpectedStampCode(Head(cs))
          ELSE ExpectedFlagCode(Head(cs)))
         \o ExpectedCodes(ep, Tail(cs))

\* C5: once the pipeline is past its normalisation, its codes are the given
\* codes lowercased with the empty ones dropped (stamps), or trimmed and
\* lowercased with the empty ones dropped (flags); when nothing is left the
\* invocation has failed with InvalidInput, and no Fetch and no Persist call
\* was made.
C5_Normalization ==
    \A p \in Invocations :
        (Called(p) /\ pc[p] # "call")
        => LET expected == ExpectedCodes(endpoint[p], args[p].codes)
           IN  /\ expected # <<>> => codes[p] = expected /\ err[p] # "InvalidInput"
               /\ expected = <<>>
                    => /\ Done(p) /\ err[p] = "InvalidInput"
                       /\ fetchCalls[p] = 0
                       /\ persistCalls[p] = <<>>

\* C5 witness: the flag pipeline normalised ["AU", "zz "] to [au, zz]
C5_Witness ==
    \E p \in Invocations :
        /\ endpoint[p] = "flags"
        /\ args[p].codes = << <<"A","U">>, <<"z","z"," ">> >>
        /\ codes[p] = << <<"a","u">>, <<"z","z">> >>

\* C5 second witness: a list of empty entries ended in InvalidInput
C5_InvalidInputWitness ==
    \E p \in Invocations :
        /\ Called(p) /\ Done(p) /\ err[p] = "InvalidInput"
        /\ fetchCalls[p] = 0 /\ persistCalls[p] = <<>>

\* the request supplies no codes: nothing is left of them after the
\* endpoint's normalisation
NoCodesSupplied(p) ==
    ~ Truthy(NormalizeCodes(endpoint[p], HandlerCodes(req[p])))

\* C6: every non-OPTIONS request that supplies no codes, a JSON list of only
\* empty or whitespace-only entries included, is answered 400; 500 is answered
\* only for NoAssetsResolved, storage failures and other exceptions, and 200
\* only on success.
C6_InvalidInputIs400 ==
    \A p \in Invocations :
        (Done(p) /\ req[p].method # "OPTIONS")
        => /\ NoCodesSupplied(p) => status[p] = 400
           /\ status[p] = 500
                => err[p] \in {"NoAssetsResolved", "StorageFailure", "ValueError"}
           /\ status[p] = 200 => Returned(p)

(* ----------------------------------------------------------------------- *)
(* _boxes_overlap applied on its own (specification SpecOverlap)            *)
(* ----------------------------------------------------------------------- *)
\* largest coordinate and largest side of the boxes drawn
MaxCoord == 2
MaxSide == 2

\* the boxes of the spec's example: (0,0,10,10) and (10,0,10,10)
ExampleBoxes == { <<0, 0, 10, 10>>, <<10, 0, 10, 10>> }

Boxes ==
    { <<x, y, w, h>> : x \in 0..MaxCoord, y \in 0..MaxCoord,
                       w \in 0..MaxSide, h \in 0..MaxSide } \cup ExampleBoxes

\* no invocation runs while a function is applied on its own
InitUnit ==
    /\ InitLocals({})
    /\ endpoint = <<>>
    /\ req = <<>>

UnitApplied(out) == unit' = [unit EXCEPT !.out = out, !.applied = TRUE]

PipelineVars == << pc, endpoint, req, args, codes, fetched, fetchCalls, placed,
                   missing, placed_boxes, tiles, canvas, persistCalls, err,
                   status, result, bucket, _storage_client, client >>

InitOverlap ==
    /\ InitUnit
    /\ unit \in { [fn |-> "_boxes_overlap", in |-> <<a, b>>, out |-> <<>>,
                   applied |-> FALSE] : a \in Boxes, b \in Boxes }

ApplyOverlap ==
    /\ unit.fn = "_boxes_overlap"
    /\ ~ unit.applied
    /\ UnitApplied(<< _boxes_overlap(unit.in[1], unit.in[2]) >>)
    /\ UNCHANGED PipelineVars

NextOverlap == ApplyOverlap

SpecOverlap == InitOverlap /\ [][NextOverlap]_vars

\* the interiors of the two boxes meet on both axes
InteriorsMeet(a, b) ==
    /\ a[1] < b[1] + b[3] /\ b[1] < a[1] + a[3]
    /\ a[2] < b[2] + b[4] /\ b[2] < a[2] + a[4]

\* one box ends exactly where the other begins, on either axis
EdgeToEdge(a, b) ==
    \/ a[1] + a[3] = b[1] \/ b[1] + b[3] = a[1]
    \/ a[2] + a[4] = b[2] \/ b[2] + b[4] = a[2]

\* C7: the verdict of _boxes_overlap(a, b) is the verdict of
\* _boxes_overlap(b, a); two boxes overlap exactly when neither lies entirely
\* left of, right of, above or below the other; boxes that meet edge to edge
\* do not overlap.
C7_OverlapSymmetric ==
    unit.applied
    => LET a == unit.in[1]
           b == unit.in[2]
           v == unit.out[1]
       IN  /\ v = _boxes_overlap(b, a)
           /\ v = InteriorsMeet(a, b)
           /\ EdgeToEdge(a, b) => ~ v

\* C7 witness: (0,0,10,10) and (10,0,10,10) were judged not to overlap
C7_Witness ==
    /\ unit.applied
    /\ unit.in = << <<0, 0, 10, 10>>, <<10, 0, 10, 10>> >>
    /\ unit.out = << FALSE >>

(* ----------------------------------------------------------------------- *)
(* The grid geometry applied on its own (specification SpecGrid)            *)
(* ----------------------------------------------------------------------- *)
\* most tiles in a grid, and the largest column count requested (the
\* smallest is its negative)
MaxTiles == 20
MaxCols == 9

\* the gaps and tile heights requested
GapSamples == { 0 - 1, 0, 10, 12 }
TileHeightSamples == { 1, 100 }

\* n tiles as the loop of build_flag_grid leaves them
UniformTiles(n, tile_height, fit_mode) ==
    [i \in 1..n |-> [code |-> <<>>, size |-> TileSize(tile_height, fit_mode)]]

InitGrid ==
    /\ InitUnit
    /\ unit \in { [fn |-> "grid",
                   in |-> [n |-> n, cols |-> c, gap |-> g, tile_height |-> h],
                   out |-> <<>>, applied |-> FALSE] :
                  n \in 1..MaxTiles, c \in (0 - MaxCols)..MaxCols,
                  g \in GapSamples, h \in TileHeightSamples }

\* lines 311-332 of build_flag_grid on n tiles
ApplyGrid ==
    /\ unit.fn = "grid"
    /\ ~ unit.applied
    /\ LET ts == UniformTiles(unit.in.n, unit.in.tile_height, "pad")
           c  == EffectiveCols(unit.in.cols, unit.in.n)
       IN  UnitApplied([tile |-> ts[1].size,
                        cols |-> c,
                        rows |-> GridRows(unit.in.n, c),
                        canvas |-> GridCanvas(ts, unit.in.cols, unit.in.gap,
                                              ReturnsNone)])
    /\ UNCHANGED PipelineVars

NextGrid == ApplyGrid

SpecGrid == InitGrid /\ [][NextGrid]_vars

\* C8: the effective column count is the requested one clamped to
\* 1..tile_count, and rows = ceil(tile_count / cols): 1 <= cols <= tile_count
\* and (rows-1)*cols < tile_count <= rows*cols; 20 tiles at 8 columns give 8
\* columns and 3 rows, 3 tiles at 8 columns give 3 columns and 1 row.
C8_GridGeometry ==
    unit.applied
    => LET n == unit.in.n
           asked == unit.in.cols
           c == unit.out.cols
           r == unit.out.rows
       IN  /\ c = (IF asked < 1 THEN 1 ELSE IF asked > n THEN n ELSE asked)
           /\ 1 <= c /\ c <= n
           /\ (r - 1) * c < n /\ n <= r * c
           /\ (n = 20 /\ asked = 8) => (c = 8 /\ r = 3)
           /\ (n = 3 /\ asked = 8) => (c = 3 /\ r = 1)

\* C8 witness: 20 tiles at 8 requested columns
C8_Witness ==
    /\ unit.applied /\ unit.fn = "grid"
    /\ unit.in.n = 20 /\ unit.in.cols = 8
    /\ unit.out.cols = 8 /\ unit.out.rows = 3

\* C8 second witness: a negative column request on several tiles
C8_NegativeColsWitness ==
    /\ unit.applied /\ unit.fn = "grid"
    /\ unit.in.n = 3 /\ unit.in.cols < 0
    /\ unit.out.cols = 1 /\ unit.out.rows = 3

\* the canvas size the claim computes from a gap g
CanvasSizeWithGap(out, g) ==
    << out.cols * out.tile[1] + (out.cols - 1) * g,
       out.rows * out.tile[2] + (out.rows - 1) * g >>

\* C9 as stated: the canvas is cols*tile_w + (cols-1)*gap by
\* rows*tile_h + (rows-1)*gap for the effective cols and rows and the
\* configured gap; three tiles with cols=2, gap=10, tile_height=100 give 410
\* by 210.
C9_CanvasFromConfiguredGap ==
    unit.applied
    => /\ unit.out.canvas.size = CanvasSizeWithGap(unit.out, unit.in.gap)
       /\ (unit.in.n = 3 /\ unit.in.cols = 2 /\ unit.in.gap = 10
           /\ unit.in.tile_height = 100)
          => unit.out.canvas.size = <<410, 210>>

\* C9 as amended: the canvas is cols*tile_w + (cols-1)*gap by
\* rows*tile_h + (rows-1)*gap for the effective cols and rows and the
\* effective gap max(0, gap) (a negative configured gap counts as 0); three
\* tiles with cols=2, gap=10, tile_height=100 give 410 by 210.
C9_CanvasFromEffectiveGap ==
    unit.applied
    => /\ unit.out.canvas.size
            = CanvasSizeWithGap(unit.out,
                                IF unit.in.gap < 0 THEN 0 ELSE unit.in.gap)
       /\ (unit.in.n = 3 /\ unit.in.cols = 2 /\ unit.in.gap = 10
           /\ unit.in.tile_height = 100)
          => unit.out.canvas.size = <<410, 210>>

\* C9 witness: the 410 by 210 canvas of the example
C9_Witness ==
    /\ unit.applied /\ unit.fn = "grid"
    /\ unit.in = [n |-> 3, cols |-> 2, gap |-> 10, tile_height |-> 100]
    /\ unit.out.tile = <<200, 100>>
    /\ unit.out.canvas.size = <<410, 210>>

\* C9 second witness: a negative gap on a grid of several columns and rows
C9_NegativeGapWitness ==
    /\ unit.applied /\ unit.fn = "grid"
    /\ unit.in.gap < 0 /\ unit.out.cols > 1 /\ unit.out.rows > 1

(* ----------------------------------------------------------------------- *)
(* hex_to_rgba applied on its own (specification SpecHex)                   *)
(* ----------------------------------------------------------------------- *)
\* the hex digits drawn, with their values
HexSamples == { "0", "9", "a", "c", "F" }

SampleValue(c) ==
    CASE c = "0" -> 0
      [] c = "9" -> 9
      [] c = "a" -> 10
      [] c = "c" -> 12
      [] c = "F" -> 15

UpperTransparent == <<"T","R","A","N","S","P","A","R","E","N","T">>

\* "transparent" in every mix of letter cases
TransparentSpellings ==
    { [i \in 1..11 |-> IF i \in up THEN UpperTransparent[i] ELSE Transparent[i]] :
        up \in SUBSET (1..11) }

\* #rgb and #rrggbb colours over the sampled digits
ShortHexColours ==
    { <<"#", r, g, b>> : r \in HexSamples, g \in HexSamples, b \in HexSamples }

LongHexColours ==
    { <<"#", r, r2, g, g, b, b>> :
        r \in HexSamples, r2 \in HexSamples, g \in HexSamples, b \in HexSamples }

\* other background strings: "", "white", "#ff", "transparent " and "#ggg"
OtherBackgrounds ==
    { <<>>, <<"w","h","i","t","e">>, <<"#","f","f">>,
      Transparent \o <<" ">>, <<"#","g","g","g">> }

InitHex ==
    /\ InitUnit
    /\ unit \in { [fn |-> "hex_to_rgba", in |-> col, out |-> <<>>,
                   applied |-> FALSE] :
                  col \in TransparentSpellings \cup ShortHexColours
                          \cup LongHexColours \cup OtherBackgrounds }

\* bg_rgba = hex_to_rgba(bg) and the fill of the new canvas (where
\* hex_to_rgba raises no canvas is made)
ApplyHex ==
    /\ unit.fn = "hex_to_rgba"
    /\ ~ unit.applied
    /\ LET bg_rgba == hex_to_rgba(unit.in)
       IN  UnitApplied([bg_rgba |-> bg_rgba,
                        fill |-> IF bg_rgba.kind = "ValueError" THEN <<>>
                                 ELSE CanvasFill(bg_rgba)])
    /\ UNCHANGED PipelineVars

NextHex == ApplyHex

SpecHex == InitHex /\ [][NextHex]_vars

\* the string spells "transparent" in some mix of letter cases
SpellsTransparent(col) ==
    /\ Len(col) = 11
    /\ \A i \in 1..11 : col[i] \in { Transparent[i], UpperTransparent[i] }

\* C10: #rgb parses to the opaque colour of #rrggbb, each nibble doubled
\* (alpha 255), and "transparent" in any letter case yields no background
\* colour, the canvas starting with alpha 0.
C10_HexForms ==
    unit.applied
    => LET col == unit.in
           res == unit.out.bg_rgba
       IN  /\ col \in ShortHexColours
              => /\ res = ReturnsColour(<< 17 * SampleValue(col[2]),
                                           17 * SampleValue(col[3]),
                                           17 * SampleValue(col[4]), 255 >>)
                 /\ res = hex_to_rgba(<<"#", col[2], col[2], col[3], col[3],
                                        col[4], col[4]>>)
           /\ col \in LongHexColours
              => res = ReturnsColour(
                         << 16 * SampleValue(col[2]) + SampleValue(col[3]),
                            16 * SampleValue(col[4]) + SampleValue(col[5]),
                            16 * SampleValue(col[6]) + SampleValue(col[7]),
                            255 >>)
           /\ SpellsTransparent(col)
              => /\ res = ReturnsNone
                 /\ unit.out.fill = <<0, 0, 0, 0>>

\* C10 witness: "#9cF" parsed to (153, 204, 255, 255)
C10_Witness ==
    /\ unit.applied
    /\ unit.in = <<"#", "9", "c", "F">>
    /\ unit.out.bg_rgba.rgba = <<153, 204, 255, 255>>

\* C10 second witness: "TRANSPARENT" gave no colour
C10_TransparentWitness ==
    /\ unit.applied
    /\ unit.in = UpperTransparent
    /\ unit.out.bg_rgba.kind = "None"
    /\ unit.out.fill[4] = 0

\* "#" followed by three or six hexadecimal digits
IsHexColour(col) ==
    /\ Len(col) \in {4, 7}
    /\ col[1] = "#"
    /\ \A i \in 2..Len(col) : IsHexDigit(col[i])

White == <<255, 255, 255, 255>>

\* C11: every background string that is neither "transparent" nor a hex
\* colour #RGB or #RRGGBB (strings such as "#ggg" included) is treated as
\* opaque white (255,255,255,255), and hex_to_rgba never fails.
C11_WhiteFallback ==
    unit.applied
    => /\ unit.out.bg_rgba.kind # "ValueError"
       /\ (~ SpellsTransparent(unit.in) /\ ~ IsHexColour(unit.in))
          => /\ unit.out.bg_rgba = ReturnsColour(White)
             /\ unit.out.fill = White

(* ----------------------------------------------------------------------- *)
(* make_uniform_tile_from_bytes applied on its own (specification SpecTile) *)
(* ----------------------------------------------------------------------- *)
\* n without its factors of two
RECURSIVE OddPart(_)
OddPart(n) == IF n % 2 = 0 THEN OddPart(n \div 2) ELSE n

\* num / den is a double exactly: its reduced denominator is a power of two
ExactDouble(num, den) == num % OddPart(den) = 0

\* int(round(v * scale)) for scale = num / den, den > 0.  Off a tie the double
\* product rounds as the exact one.  On a tie round() goes to the even
\* neighbour when the scale is an exact double; when it is not, the product is
\* a double at or next to the tie and round() gives either neighbour.
RoundScaled(v, num, den) ==
    LET q == (v * num) \div den
        r == (v * num) % den
    IN  IF 2 * r < den THEN { q }
        ELSE IF 2 * r > den THEN { q + 1 }
        ELSE IF ExactDouble(num, den)
             THEN { IF q % 2 = 0 THEN q ELSE q + 1 }
             ELSE { q, q + 1 }

\* a slip: the pad scale is the larger of the two ratios
FitScale_Larger(w, h, box_w, box_h) ==
    IF box_w * h >= box_h * w THEN <<box_w, w>> ELSE <<box_h, h>>

\* scale = min(box_w / w, box_h / h), as <<numerator, denominator>>
FitScale(w, h, box_w, box_h) ==
    IF box_w * h <= box_h * w THEN <<box_w, w>> ELSE <<box_h, h>>

\* a slip: the crop scale is the smaller of the two ratios
FillScale_Smaller(w, h, box_w, box_h) ==
    IF box_w * h <= box_h * w THEN <<box_w, w>> ELSE <<box_h, h>>

\* scale = max(box_w / w, box_h / h), as <<numerator, denominator>>
FillScale(w, h, box_w, box_h) ==
    IF box_w * h >= box_h * w THEN <<box_w, w>> ELSE <<box_h, h>>

\* new_w = max(1, int(round(w * scale))), new_h = max(1, int(round(h * scale)))
ScaledSizes(w, h, scale) ==
    { << Max(1, rw), Max(1, rh) >> :
        rw \in RoundScaled(w, scale[1], scale[2]),
        rh \in RoundScaled(h, scale[1], scale[2]) }

\* what make_uniform_tile_from_bytes does: it returns a tile, or an image
\* call raises ValueError.  scaled is the size the source was resized to, at
\* the paste offset (pad) or the corner of the crop rectangle (crop).
TileReturned(size, scaled, at) ==
    [kind |-> "tile", size |-> size, scaled |-> scaled, at |-> at]
TileRaises(scaled, at) ==
    [kind |-> "ValueError", size |-> <<>>, scaled |-> scaled, at |-> at]

\* fit_mode == "pad".  Image.new raises ValueError on a negative size, and
\* alpha_composite on a negative destination
PadTile(w, h, box_w, box_h) ==
    { LET x == (box_w - new[1]) \div 2
          y == (box_h - new[2]) \div 2
      IN  IF box_w < 0 \/ box_h < 0 THEN TileRaises(new, <<>>)
          ELSE IF x < 0 \/ y < 0 THEN TileRaises(new, <<x, y>>)
          ELSE TileReturned(<<box_w, box_h>>, new, <<x, y>>) :
      new \in ScaledSizes(w, h, FitScale(w, h, box_w, box_h)) }

\* fit_mode == "crop".  Image.crop returns an image of right - left by
\* bottom - top; on a rectangle whose right is less than its left (or bottom
\* than top) it raises ValueError or, in older releases of the library,
\* returns an empty image
CropTile(w, h, box_w, box_h) ==
    UNION { LET left == Max(0, (new[1] - box_w) \div 2)
                top  == Max(0, (new[2] - box_h) \div 2)
            IN  IF box_w < 0 \/ box_h < 0
                THEN { TileRaises(new, <<left, top>>),
                       TileReturned(<<0, 0>>, new, <<left, top>>) }
                ELSE { TileReturned(<<box_w, box_h>>, new, <<left, top>>) } :
            new \in ScaledSizes(w, h, FillScale(w, h, box_w, box_h)) }

\* fit_mode == "stretch": img.resize((box_w, box_h)), which raises ValueError
\* unless both sides are positive
StretchTile(w, h, box_w, box_h) ==
    IF box_w < 1 \/ box_h < 1 THEN { TileRaises(<<>>, <<>>) }
    ELSE { TileReturned(<<box_w, box_h>>, <<box_w, box_h>>, <<>>) }

\* a slip: the fit mode is compared without regard to letter case
make_uniform_tile_from_bytes_AnyCase(w, h, box_h, fit_mode) ==
    LET box_w == BoxWidth(box_h)
    IN  IF fit_mode \in {"pad", "Pad", "PAD"}
        THEN PadTile(w, h, box_w, box_h)
        ELSE IF fit_mode \in {"crop", "Crop", "CROP"}
        THEN CropTile(w, h, box_w, box_h)
        ELSE StretchTile(w, h, box_w, box_h)

\* the outcomes of make_uniform_tile_from_bytes on a source of w by h
make_uniform_tile_from_bytes(w, h, box_h, fit_mode) ==
    LET box_w == BoxWidth(box_h)
    IN  IF fit_mode = "pad" THEN PadTile(w, h, box_w, box_h)
        ELSE IF fit_mode = "crop" THEN CropTile(w, h, box_w, box_h)
        ELSE StretchTile(w, h, box_w, box_h)

\* largest side of the sources and largest tile height drawn (the smallest
\* tile height is -1)
MaxSrc == 6
MaxBoxH == 4

\* a 1000 by 667 flag at the default tile height, a 1000 by 500 one at 100
TileExamples == { <<1000, 667, DEFAULT_TILE_HEIGHT>>, <<1000, 500, 100>> }

\* the values of fit_mode: the three modes, two in other letter cases, and a
\* string that names no mode
FitModes == { "pad", "crop", "stretch", "Pad", "CROP", "fill" }

InitTile ==
    /\ InitUnit
    /\ unit \in { [fn |-> "make_uniform_tile_from_bytes",
                   in |-> [w |-> i[1], h |-> i[2], box_h |-> i[3],
                           fit_mode |-> m],
                   out |-> <<>>, applied |-> FALSE] :
                  i \in ((1..MaxSrc) \X (1..MaxSrc) \X ((0 - 1)..MaxBoxH))
                        \cup TileExamples,
                  m \in FitModes }

ApplyTile ==
    /\ unit.fn = "make_uniform_tile_from_bytes"
    /\ ~ unit.applied
    /\ \E o \in make_uniform_tile_from_bytes(unit.in.w, unit.in.h,
                                             unit.in.box_h, unit.in.fit_mode) :
          UnitApplied(o)
    /\ UNCHANGED PipelineVars

NextTile == ApplyTile

SpecTile == InitTile /\ [][NextTile]_vars

\* the tile was built in the given mode for a positive tile height
TileBuilt(mode) ==
    unit.applied /\ unit.in.fit_mode = mode /\ unit.in.box_h >= 1

\* C12: pad fit, for every source size w, h >= 1 and tile height box_h >= 1
\* with box_w = round(2 * box_h): the size the source is scaled to satisfies
\* new_w <= box_w and new_h <= box_h, the paste offsets are non-negative, and
\* the scaled source lies entirely inside a tile of exactly box_w by box_h.
C12_PadFitsInside ==
    TileBuilt("pad")
    => LET box_w == 2 * unit.in.box_h
           box_h == unit.in.box_h
           new   == unit.out.scaled
           at    == unit.out.at
       IN  /\ unit.out.kind = "tile"
           /\ unit.out.size = <<box_w, box_h>>
           /\ unit.out.size = TileSize(box_h, "pad")
           /\ 1 <= new[1] /\ new[1] <= box_w
           /\ 1 <= new[2] /\ new[2] <= box_h
           /\ at[1] >= 0 /\ at[2] >= 0
           /\ at[1] + new[1] <= box_w /\ at[2] + new[2] <= box_h

\* C12 witness: a 1000 by 667 flag padded into a 500 by 250 tile, scaled to
\* 375 by 250 and pasted 62 from the left
C12_Witness ==
    /\ TileBuilt("pad")
    /\ unit.in.w = 1000 /\ unit.in.h = 667 /\ unit.in.box_h = 250
    /\ unit.out.kind = "tile"
    /\ unit.out.scaled = <<375, 250>>
    /\ unit.out.at = <<62, 0>>

\* C12 second witness: a source whose scaled height rounds to 0 is kept at 1
C12_ThinWitness ==
    /\ TileBuilt("pad")
    /\ unit.in.w = 6 /\ unit.in.h = 1 /\ unit.in.box_h = 1
    /\ unit.out.scaled = <<2, 1>>

\* C13: crop fit, for every source size w, h >= 1 and tile height box_h >= 1
\* with box_w = round(2 * box_h): the scaled size satisfies new_w >= box_w and
\* new_h >= box_h and the crop rectangle (left, top, left + box_w,
\* top + box_h) lies entirely inside the scaled image, so the box_w by box_h
\* tile has no padding.
C13_CropFills ==
    TileBuilt("crop")
    => LET box_w == 2 * unit.in.box_h
           box_h == unit.in.box_h
           new   == unit.out.scaled
           at    == unit.out.at
       IN  /\ unit.out.kind = "tile"
           /\ unit.out.size = <<box_w, box_h>>
           /\ unit.out.size = TileSize(box_h, "crop")
           /\ new[1] >= box_w /\ new[2] >= box_h
           /\ at[1] >= 0 /\ at[2] >= 0
           /\ at[1] + box_w <= new[1] /\ at[2] + box_h <= new[2]

\* C13 witness: a 1000 by 667 flag cropped to a 500 by 250 tile: scaled by
\* 0.5 to 500 by 334 (333.5 rounds to even), 42 rows cut off the top
C13_Witness ==
    /\ TileBuilt("crop")
    /\ unit.in.w = 1000 /\ unit.in.h = 667 /\ unit.in.box_h = 250
    /\ unit.out.kind = "tile"
    /\ unit.out.scaled = <<500, 334>>
    /\ unit.out.at = <<0, 42>>

\* C13 second witness: a tall source, cut at the top and the bottom
C13_TallWitness ==
    /\ TileBuilt("crop")
    /\ unit.in.w = 1 /\ unit.in.h = 6 /\ unit.in.box_h = 1
    /\ unit.out.scaled = <<2, 12>>
    /\ unit.out.at = <<0, 5>>

\* C14: make_uniform_tile_from_bytes fails with InvalidInput (a ValueError in
\* this program) whenever the tile height box_h is zero or negative, in every
\* fit mode, and produces no tile.
C14_NonPositiveHeightFails ==
    (unit.applied /\ unit.in.box_h <= 0)
    => /\ unit.out.kind = "ValueError"
       /\ unit.out.size = <<>>

(* ----------------------------------------------------------------------- *)
(* Two invocations at the same time (specification SpecConcurrent)          *)
(* ----------------------------------------------------------------------- *)
ConcurrentInvocations == { 1, 2 }

\* the requests of the concurrent invocations: a preflight, a GET without
\* codes, a POST of [""], and a POST of ["AU"] (stamps) or ["AU", "zz "]
\* (flags, with the default parameters or with a background of "#ggg")
ConcurrentRequests(ep) ==
    { r \in Requests(ep) :
        \/ r.method = "OPTIONS"
        \/ r.method = "GET" /\ r.param = Absent /\ r.flag = NoFlagParams
        \/ /\ r.method = "POST" /\ r.param = Absent
           /\ \/ r.body_codes = Present(<< <<>> >>) /\ r.flag = NoFlagParams
              \/ /\ r.body_codes
                      = Present(IF ep = "stamps" THEN << <<"A","U">> >>
                                ELSE << <<"A","U">>, <<"z","z"," ">> >>)
                 /\ \/ r.flag = NoFlagParams
                    \/ r.flag.bg = Present(<<"#","g","g","g">>) }

\* a request arrives for each invocation, each at one of the two endpoints
InitConcurrent ==
    /\ InitLocals(ConcurrentInvocations)
    /\ endpoint \in [ConcurrentInvocations -> {"stamps", "flags"}]
    /\ req \in [ConcurrentInvocations ->
                  ConcurrentRequests("stamps") \cup ConcurrentRequests("flags")]
    /\ \A p \in ConcurrentInvocations : req[p] \in ConcurrentRequests(endpoint[p])
    /\ unit = NoUnit

\* the threads of the two invocations run their steps in any order
NextConcurrent ==
    \E p \in ConcurrentInvocations :
        \/ HttpOptions(p)
        \/ HttpNoCodes(p)
        \/ HttpCall(p)
        \/ RaiseInvalidInput(p)
        \/ StartLoop(p)
        \/ FetchFails(p)
        \/ FetchAbsent(p)
        \/ PlaceStamp(p)
        \/ LoadFlagTile(p)
        \/ RaiseNoAssets(p)
        \/ FinishStamps(p)
        \/ RaiseBadBackground(p)
        \/ ComposeGrid(p)
        \/ PersistOk(p)
        \/ PersistFails(p)
        \/ ClientCheck(p)
        \/ ClientCreate(p)
        \/ ClientReturn(p)

SpecConcurrent == InitConcurrent /\ [][NextConcurrent]_vars

\* the invocation called _save_canvas_to_gcs
ReachedPersist(p) == persistCalls[p] # <<>>

\* C15: generated filenames are unique: any two invocations that reach
\* Persist, one after the other or at the same time, within the same UTC
\* second included, pass different filenames, so no invocation's stored
\* composite is overwritten by another invocation.
C15_UniqueFilenames ==
    /\ \A p, q \in DOMAIN pc :
          (p # q /\ ReachedPersist(p) /\ ReachedPersist(q))
          => persistCalls[p][1].filename # persistCalls[q][1].filename
    /\ \A p \in DOMAIN pc :
          Returned(p) => [path |-> result[p][1].filename, by |-> p] \in bucket

\* the lists and the canvas an invocation works on
Locals(p) ==
    << codes[p], fetched[p], placed[p], missing[p], placed_boxes[p], tiles[p],
       canvas[p], result[p] >>

\* placed and missing as the invocation builds them when it runs alone: the
\* codes of its own request that its own Fetch calls resolved, and the others
AloneOutcome(p) ==
    LET cs == NormalizeCodes(endpoint[p], HandlerCodes(req[p]))
    IN  [placed  |-> WithAnswer(cs, fetched[p], TRUE),
         missing |-> WithAnswer(cs, fetched[p], FALSE)]

\* C16: concurrent invocations are independent: under every interleaving of
\* the steps of two invocations, each invocation's canvas, placement boxes,
\* placed list and missing list are written only by its own steps (a step
\* changes the locals of one invocation at most), and its placed and missing
\* are what it returns when run alone with the same codes and Fetch answers.
C16_Independent ==
    /\ [](\A p \in DOMAIN pc :
            /\ Resolved(p) = AloneOutcome(p).placed
            /\ missing[p] = AloneOutcome(p).missing
            /\ endpoint[p] = "stamps"
               => /\ canvas[p].pasted = placed_boxes[p]
                  /\ Len(placed_boxes[p]) = Len(placed[p])
            /\ Returned(p)
               => /\ result[p][1].placed = AloneOutcome(p).placed
                  /\ result[p][1].missing = AloneOutcome(p).missing)
    /\ [][\A p, q \in DOMAIN pc :
            (p # q /\ Locals(p)' # Locals(p)) => Locals(q)' = Locals(q)]_vars

\* C16 witness: two flag grids built at the same time have returned, one with
\* the first code missing and one with the second
C16_Witness ==
    /\ DOMAIN pc = ConcurrentInvocations
    /\ Returned(1) /\ Returned(2)
    /\ endpoint[1] = "flags" /\ endpoint[2] = "flags"
    /\ fetched[1] = <<TRUE, FALSE>> /\ fetched[2] = <<FALSE, TRUE>>
    /\ result[1][1].placed # result[2][1].placed

\* C16 second witness: both loops are under way, and invocation 1 holds the
\* storage client that invocation 2 created
C16_SharedClientWitness ==
    /\ DOMAIN pc = ConcurrentInvocations
    /\ pc[1] = "loop" /\ pc[2] = "loop"
    /\ Len(fetched[2]) = 1
    /\ client[1] = [stage |-> "held", held |-> 2]

(* ----------------------------------------------------------------------- *)
(* _choose_position step by step (specification SpecPosition)               *)
(* ----------------------------------------------------------------------- *)
\* most stamps placed on one canvas
MaxStamps == 2

\* the sizes of the transformed stamps: a quarter of the canvas, one that is
\* higher than the canvas (a 1000 by 4000 stamp at the scale 0.6), and one
\* that fills the canvas
TransformedSizes ==
    { <<1000, 1000>>, _random_transform(<<1000, 4000>>, MIN_SCALE_TENTHS),
      <<CANVAS_WIDTH, CANVAS_HEIGHT>> }

\* the loop of compose_passport_stamps is at a stamp and _choose_position has
\* drawn nothing yet
NoSearch ==
    [placed_boxes |-> <<>>, via |-> <<>>, draws |-> 0, cand |-> <<>>,
     last |-> <<>>, recent |-> <<>>]

InitPosition ==
    /\ InitUnit
    /\ unit \in { [fn |-> "_choose_position", in |-> imgs, out |-> NoSearch,
                   applied |-> FALSE] :
                  imgs \in UNION { [1..n -> TransformedSizes] : n \in 1..MaxStamps } }

\* the stamp _choose_position is called for, and the box of a position
SearchImage == unit.in[Len(unit.out.placed_boxes) + 1]
SearchBox(pos) == <<pos[1], pos[2], SearchImage[1], SearchImage[2]>>

Searching == unit.fn = "_choose_position" /\ ~ unit.applied

\* _choose_position returns pos, having drawn so many positions; the caller
\* composites the stamp there and appends its box to placed_boxes
ReturnPosition(pos, how, drawn) ==
    LET boxes == Append(unit.out.placed_boxes, SearchBox(pos))
    IN  unit' = [unit EXCEPT
                   !.out = [placed_boxes |-> boxes,
                            via |-> Append(unit.out.via, how),
                            draws |-> 0, cand |-> <<>>, last |-> <<>>,
                            recent |-> << [pos |-> pos, via |-> how,
                                           drawn |-> drawn,
                                           tried |-> unit.out.last] >>],
                   !.applied = (Len(boxes) = Len(unit.in))]

\* for _ in range(retries): x = random.randint(..); y = random.randint(..)
DrawCandidate ==
    /\ Searching
    /\ unit.out.cand = <<>>
    /\ unit.out.draws < OVERLAP_RETRIES
    /\ \E pos \in CandidatePositions(SearchImage[1], SearchImage[2]) :
          unit' = [unit EXCEPT !.out.cand = pos, !.out.last = pos,
                               !.out.draws = @ + 1, !.out.recent = <<>>]
    /\ UNCHANGED PipelineVars

\* a slip: the candidate is accepted without the overlap test
AcceptCandidate_Untested ==
    /\ Searching
    /\ unit.out.cand # <<>>
    /\ ReturnPosition(unit.out.cand, "loop", unit.out.draws)
    /\ UNCHANGED PipelineVars

\* if not any(_boxes_overlap(candidate, b) for b in placed_boxes): return x, y
AcceptCandidate ==
    /\ Searching
    /\ unit.out.cand # <<>>
    /\ ~ OverlapsAny(SearchBox(unit.out.cand), unit.out.placed_boxes)
    /\ ReturnPosition(unit.out.cand, "loop", unit.out.draws)
    /\ UNCHANGED PipelineVars

\* the candidate overlaps a placed box: the loop goes on
RejectCandidate ==
    /\ Searching
    /\ unit.out.cand # <<>>
    /\ OverlapsAny(SearchBox(unit.out.cand), unit.out.placed_boxes)
    /\ unit' = [unit EXCEPT !.out.cand = <<>>]
    /\ UNCHANGED PipelineVars

\* a slip: after the loop the last candidate is returned
FallbackPosition_LastTried ==
    /\ Searching
    /\ unit.out.cand = <<>>
    /\ unit.out.draws = OVERLAP_RETRIES
    /\ ReturnPosition(unit.out.last, "fallback", unit.out.draws)
    /\ UNCHANGED PipelineVars

\* after the loop: one more position is drawn and returned as it is
FallbackPosition ==
    /\ Searching
    /\ unit.out.cand = <<>>
    /\ unit.out.draws = OVERLAP_RETRIES
    /\ \E pos \in CandidatePositions(SearchImage[1], SearchImage[2]) :
          ReturnPosition(pos, "fallback", unit.out.draws + 1)
    /\ UNCHANGED PipelineVars

NextPosition ==
    \/ DrawCandidate
    \/ AcceptCandidate
    \/ RejectCandidate
    \/ FallbackPosition

SpecPosition == InitPosition /\ [][NextPosition]_vars

\* the loop of the caller and the loop of _choose_position keep running
SpecPositionFair == SpecPosition /\ WF_vars(NextPosition)

\* _choose_position has just returned
JustReturned == unit.fn = "_choose_position" /\ unit.out.recent # <<>>
Recent == unit.out.recent[1]
RecentBox == unit.out.placed_boxes[Len(unit.out.placed_boxes)]
EarlierBoxes == SubSeq(unit.out.placed_boxes, 1, Len(unit.out.placed_boxes) - 1)

\* C17 as stated: when none of the OVERLAP_RETRIES candidates tried is free
\* of overlap, the position returned is the last candidate that was tried; the
\* search draws at most OVERLAP_RETRIES positions per stamp.
C17_FallbackIsLastTried ==
    JustReturned
    => /\ Recent.via = "fallback" => Recent.pos = Recent.tried
       /\ Recent.drawn <= OVERLAP_RETRIES

\* C17 as amended: when none of the OVERLAP_RETRIES candidates tried is free
\* of overlap, the position returned is one more position drawn from the same
\* ranges, not tested for overlap; the search draws at most
\* OVERLAP_RETRIES + 1 positions per stamp (OVERLAP_RETRIES when it returns
\* from the loop) and always returns a position.
C17_FallbackIsFreshDraw ==
    /\ [](JustReturned
          => /\ Recent.via = "fallback"
                => /\ Recent.drawn = OVERLAP_RETRIES + 1
                   /\ <<Recent.pos[1], Recent.pos[2]>>
                        \in CandidatePositions(RecentBox[3], RecentBox[4])
                   /\ OverlapsAny(<<Recent.tried[1], Recent.tried[2],
                                    RecentBox[3], RecentBox[4]>>, EarlierBoxes)
             /\ Recent.via = "loop"
                => /\ Recent.drawn <= OVERLAP_RETRIES
                   /\ Recent.pos = Recent.tried
             /\ Recent.drawn <= OVERLAP_RETRIES + 1)
    /\ [](unit.fn = "_choose_position" => unit.out.draws <= OVERLAP_RETRIES)
    /\ <>(unit.applied)

\* C17 witness: a stamp went to the fallback after OVERLAP_RETRIES overlapping
\* candidates and was placed at a position other than the last one tried
C17_Witness ==
    /\ JustReturned
    /\ Recent.via = "fallback"
    /\ Recent.drawn = OVERLAP_RETRIES + 1
    /\ Recent.pos # Recent.tried

\* a candidate is in hand and its box overlaps no placed box
FreeCandidate ==
    /\ Searching
    /\ unit.out.cand # <<>>
    /\ ~ OverlapsAny(SearchBox(unit.out.cand), unit.out.placed_boxes)

\* no two of the boxes overlap
PairwiseApart(boxes) ==
    \A i, j \in 1..Len(boxes) : i < j => ~ _boxes_overlap(boxes[i], boxes[j])

\* C18: the first candidate whose box intersects no previously placed box is
\* accepted immediately, with no further draws; hence every position returned
\* from within the retry loop gives a box that overlaps none of the earlier
\* placed boxes, and in any run where no stamp fell through to the fallback
\* all recorded placement boxes are pairwise non-overlapping.
C18_FirstFreeAccepted ==
    /\ [][FreeCandidate
          => /\ unit.out.placed_boxes'
                  = Append(unit.out.placed_boxes, SearchBox(unit.out.cand))
             /\ unit.out.recent'
                  = << [pos |-> unit.out.cand, via |-> "loop",
                        drawn |-> unit.out.draws, tried |-> unit.out.cand] >>]_vars
    /\ []((JustReturned /\ Recent.via = "loop")
          => ~ OverlapsAny(RecentBox, EarlierBoxes))
    /\ []((unit.fn = "_choose_position"
           /\ \A i \in 1..Len(unit.out.via) : unit.out.via[i] = "loop")
          => PairwiseApart(unit.out.placed_boxes))

\* C18 witness: the second stamp was placed from the loop, apart from the
\* first, after candidates that overlapped it
C18_Witness ==
    /\ JustReturned
    /\ unit.out.via = <<"loop", "loop">>
    /\ Recent.drawn > 1
    /\ PairwiseApart(unit.out.placed_boxes)

\* C19: every position (x, y) returned by _choose_position, from the retry
\* loop or the fallback, satisfies 0 <= x <= max(0, CANVAS_WIDTH - img_w) and
\* 0 <= y <= max(0, CANVAS_HEIGHT - img_h); so every recorded box lies fully
\* within the canvas whenever the transformed image is no larger than the
\* canvas, and has coordinate 0 on any axis where the image exceeds it.
C19_PositionsInRange ==
    unit.fn = "_choose_position"
    => /\ \A i \in 1..Len(unit.out.placed_boxes) :
             LET x == unit.out.placed_boxes[i][1]
                 y == unit.out.placed_boxes[i][2]
                 w == unit.out.placed_boxes[i][3]
                 h == unit.out.placed_boxes[i][4]
             IN  /\ 0 <= x /\ x <= (IF w > CANVAS_WIDTH THEN 0
                                    ELSE CANVAS_WIDTH - w)
                 /\ 0 <= y /\ y <= (IF h > CANVAS_HEIGHT THEN 0
                                    ELSE CANVAS_HEIGHT - h)
                 /\ (w <= CANVAS_WIDTH /\ h <= CANVAS_HEIGHT)
                    => (x + w <= CANVAS_WIDTH /\ y + h <= CANVAS_HEIGHT)
                 /\ w > CANVAS_WIDTH => x = 0
                 /\ h > CANVAS_HEIGHT => y = 0
       /\ JustReturned
          => Recent.pos \in _choose_position(RecentBox[3], RecentBox[4],
                                             EarlierBoxes)

\* C19 witness: a stamp higher than the canvas placed at the top, at the
\* right end of its range, and a quarter-canvas stamp placed in the far
\* corner by the fallback
C19_Witness ==
    /\ JustReturned
    /\ unit.out.placed_boxes
         = << <<1400, 0, 600, 2400>>, <<1000, 1000, 1000, 1000>> >>
    /\ Recent.via = "fallback"

\* C19 second witness: a stamp of the size of the canvas placed at (0, 0)
C19_FullCanvasWitness ==
    /\ JustReturned
    /\ RecentBox = <<0, 0, CANVAS_WIDTH, CANVAS_HEIGHT>>
    /\ Recent.via = "loop"

(* ----------------------------------------------------------------------- *)
(* The tiles on the grid (specification SpecGrid)                           *)
(* ----------------------------------------------------------------------- *)
\* C20: the tile with index idx in resolved order is composited at
\* x = (idx mod cols) * (tile_w + gap), y = (idx div cols) * (tile_h + gap),
\* row by row from the left; for every tile count, requested cols and gap (a
\* negative gap being treated as 0) every tile rectangle lies fully within
\* the canvas and no two tile rectangles overlap.
C20_TilesOnGrid ==
    (unit.applied /\ unit.fn = "grid")
    => LET n     == unit.in.n
           c     == unit.out.cols
           g     == IF unit.in.gap < 0 THEN 0 ELSE unit.in.gap
           tile  == unit.out.tile
           size  == unit.out.canvas.size
           boxes == unit.out.canvas.pasted
       IN  /\ Len(boxes) = n
           /\ \A i \in 1..n :
                 /\ boxes[i] = << ((i - 1) % c) * (tile[1] + g),
                                  ((i - 1) \div c) * (tile[2] + g),
                                  tile[1], tile[2] >>
                 /\ 0 <= boxes[i][1] /\ boxes[i][1] + boxes[i][3] <= size[1]
                 /\ 0 <= boxes[i][2] /\ boxes[i][2] + boxes[i][4] <= size[2]
           /\ \A i, j \in 1..n : i < j => ~ InteriorsMeet(boxes[i], boxes[j])

\* C20 witness: the last of 20 tiles of 200 by 100 on an 8-column grid with a
\* gap of 12 sits in column 3 of row 2, at (636, 224)
C20_Witness ==
    /\ unit.applied /\ unit.fn = "grid"
    /\ unit.in = [n |-> 20, cols |-> 8, gap |-> 12, tile_height |-> 100]
    /\ unit.out.canvas.pasted[20] = <<636, 224, 200, 100>>
    /\ unit.out.canvas.size = <<1684, 324>>

\* C20 second witness: with a negative gap the tiles of a row touch
C20_NegativeGapWitness ==
    /\ unit.applied /\ unit.fn = "grid"
    /\ unit.in.gap < 0 /\ unit.in.n = 3 /\ unit.out.cols = 2
    /\ unit.in.tile_height = 100
    /\ unit.out.canvas.pasted
         = << <<0, 0, 200, 100>>, <<200, 0, 200, 100>>, <<0, 100, 200, 100>> >>

(* ----------------------------------------------------------------------- *)
(* The choice of the fit mode (specification SpecTile)                      *)
(* ----------------------------------------------------------------------- *)
\* C21: only the exact strings "pad" and "crop" select those strategies;
\* every other fit_mode value ("stretch", values in another letter case such
\* as "Pad", unknown strings) is handled as stretch, the source resized to
\* the box itself; for a tile height of 1 or more no mode raises an error and
\* the tile returned is exactly round(2 * box_h) by box_h in every mode, so
\* all tiles of one grid have the same size.
C21_FitModeSelection ==
    (unit.applied /\ unit.fn = "make_uniform_tile_from_bytes")
    => LET m     == unit.in.fit_mode
           box_h == unit.in.box_h
           box   == <<2 * box_h, box_h>>
           o     == unit.out
       IN  /\ m = "pad" => o \in PadTile(unit.in.w, unit.in.h, box[1], box_h)
           /\ m = "crop" => o \in CropTile(unit.in.w, unit.in.h, box[1], box_h)
           /\ m \notin {"pad", "crop"}
              => /\ o \in StretchTile(unit.in.w, unit.in.h, box[1], box_h)
                 /\ o.at = <<>>
                 /\ o.kind = "tile" => o.scaled = box
           /\ box_h >= 1
              => /\ o.kind = "tile"
                 /\ o.size = box
                 /\ o.size = TileSize(box_h, m)
                 /\ m \in {"pad", "crop"} => Len(o.at) = 2
                 /\ m = "pad" => (o.scaled[1] <= box[1] /\ o.scaled[2] <= box_h)
                 /\ m = "crop" => (o.scaled[1] >= box[1] /\ o.scaled[2] >= box_h)

\* C21 witness: "Pad" on a 1 by 1 source at tile height 2 stretched the source
\* to 4 by 2 (pad scales it to 2 by 2)
C21_Witness ==
    /\ unit.applied /\ unit.fn = "make_uniform_tile_from_bytes"
    /\ unit.in = [w |-> 1, h |-> 1, box_h |-> 2, fit_mode |-> "Pad"]
    /\ unit.out = TileReturned(<<4, 2>>, <<4, 2>>, <<>>)

\* C21 second witness: "pad" on the same source gave a 4 by 2 tile around a
\* source of 2 by 2
C21_PadWitness ==
    /\ unit.applied /\ unit.fn = "make_uniform_tile_from_bytes"
    /\ unit.in = [w |-> 1, h |-> 1, box_h |-> 2, fit_mode |-> "pad"]
    /\ unit.out = TileReturned(<<4, 2>>, <<2, 2>>, <<1, 0>>)

\* C21 third witness: a string that names no mode was handled without error
C21_UnknownModeWitness ==
    /\ unit.applied /\ unit.fn = "make_uniform_tile_from_bytes"
    /\ unit.in.fit_mode = "fill" /\ unit.in.box_h = DEFAULT_TILE_HEIGHT
    /\ unit.out.kind = "tile"
    /\ unit.out.size = <<500, 250>>

=============================================================================
